---- MODULE Spec2Model ----
(***************************************************************************)
(* A model of the Prompt Analyzer extension (src/src/extension.ts): the    *)
(* line-metrics engine (normalize, the metric extractors, computeMetrics,  *)
(* publishDiagnostics) and the host adapter's debounce (timers,            *)
(* debouncedAnalyze).                                                      *)
(*                                                                         *)
(* Representation.  A line is a sequence of one-character strings.  Real   *)
(* numbers are fixed-point integers in millionths ("micro"): a ratio a/b   *)
(* is (a * Micro) \div b, which compares with the code's thresholds        *)
(* exactly as the quotient does for the lengths modelled here.  Scores     *)
(* are in tenths (the weight tables hold one decimal).                     *)
(***************************************************************************)
EXTENDS Integers, Sequences, FiniteSets, TLC

Micro == 1000 * 1000

(***************************************************************************)
(* Characters and the regular-expression classes the code uses.            *)
(***************************************************************************)
Lower == {"a","b","c","d","e","f","g","h","i","j","k","l","m",
          "n","o","p","q","r","s","t","u","v","w","x","y","z"}

Upper == {"A","B","C","D","E","F","G","H","I","J","K","L","M",
          "N","O","P","Q","R","S","T","U","V","W","X","Y","Z"}

Digit == {"0","1","2","3","4","5","6","7","8","9"}

\* [a-zA-Z]
Alpha == Lower \cup Upper

\* \w
WordChar == Alpha \cup Digit \cup {"_"}

\* \s (the ASCII part: space and tab)
SpaceChar == {" ", "\t"}

\* [A-Za-z0-9_:-] of PLACEHOLDER_RE
PlaceholderChar == WordChar \cup {":", "-"}

\* The lower-case form of a letter (the i flag of stepRegex).
ToLower(ch) ==
    CASE ch = "A" -> "a" [] ch = "B" -> "b" [] ch = "C" -> "c" [] ch = "D" -> "d"
      [] ch = "E" -> "e" [] ch = "F" -> "f" [] ch = "G" -> "g" [] ch = "H" -> "h"
      [] ch = "I" -> "i" [] ch = "J" -> "j" [] ch = "K" -> "k" [] ch = "L" -> "l"
      [] ch = "M" -> "m" [] ch = "N" -> "n" [] ch = "O" -> "o" [] ch = "P" -> "p"
      [] ch = "Q" -> "q" [] ch = "R" -> "r" [] ch = "S" -> "s" [] ch = "T" -> "t"
      [] ch = "U" -> "u" [] ch = "V" -> "v" [] ch = "W" -> "w" [] ch = "X" -> "x"
      [] ch = "Y" -> "y" [] ch = "Z" -> "z" [] OTHER -> ch

\* The character at position i (1-based), or "" past the end.
At(s, i) == IF i >= 1 /\ i <= Len(s) THEN s[i] ELSE ""

\* The least element of a non-empty set of integers.
Least(set) == CHOOSE m \in set : \A k \in set : m <= k

\* The first position >= i of s holding character ch, or 0.
IndexFrom(s, ch, i) ==
    LET hits == {j \in i..Len(s) : s[j] = ch}
    IN  IF hits = {} THEN 0 ELSE Least(hits)

\* The first position >= i of s whose character is not in class, or Len(s)+1.
RunEnd(s, class, i) ==
    IF \A j \in i..Len(s) : s[j] \in class
    THEN (IF i > Len(s) THEN i ELSE Len(s) + 1)
    ELSE Least({j \in i..Len(s) : s[j] \notin class})

\* The least element of a set of positions, or 0: the leftmost match of a
\* global regular expression among the positions where it matches.
LeastOrZero(set) == IF set = {} THEN 0 ELSE Least(set)

(***************************************************************************)
(* normalize: three global replacements, in the code's order.              *)
(***************************************************************************)
\* LINK_RE = /\[([^\]]+)\]\([^)]+\)/ tried at position i, the label ending
\* before position j: the position of the close parenthesis, or 0.
LinkTarget(s, i, j) ==
    IF j = 0 \/ j = i + 1 \/ At(s, j + 1) # "(" \/ IndexFrom(s, ")", j + 2) = j + 2
    THEN 0
    ELSE IndexFrom(s, ")", j + 2)

LinkMatch(s, i) ==
    IF At(s, i) # "[" THEN 0 ELSE LinkTarget(s, i, IndexFrom(s, "]", i + 1))

\* line.replace(LINK_RE, '$1') from position i: the text up to the leftmost
\* match (at j, 0 if none), the match's label, and the rest likewise.
RECURSIVE ReplaceLinks(_, _)
LinkReplaced(s, i, j) ==
    IF j = 0 THEN SubSeq(s, i, Len(s))
    ELSE SubSeq(s, i, j - 1) \o SubSeq(s, j + 1, IndexFrom(s, "]", j + 1) - 1)
         \o ReplaceLinks(s, LinkMatch(s, j) + 1)

ReplaceLinks(s, i) == LinkReplaced(s, i, LeastOrZero({j \in i..Len(s) : LinkMatch(s, j) # 0}))

\* The grave accent, which a string literal of this notation cannot hold.
Backtick == "GRAVE"

\* .replace(EMPHASIS_RE, ''): EMPHASIS_RE matches two asterisks, two
\* underscores or one grave accent.
\* The length of the match of EMPHASIS_RE at position i, or 0.
EmphasisMatch(s, i) ==
    IF (At(s, i) = "*" /\ At(s, i + 1) = "*") \/ (At(s, i) = "_" /\ At(s, i + 1) = "_")
    THEN 2
    ELSE IF At(s, i) = Backtick THEN 1
    ELSE 0

RECURSIVE RemoveEmphasis(_, _)
EmphasisRemoved(s, i, j) ==
    IF j = 0 THEN SubSeq(s, i, Len(s))
    ELSE SubSeq(s, i, j - 1) \o RemoveEmphasis(s, j + EmphasisMatch(s, j))

RemoveEmphasis(s, i) == EmphasisRemoved(s, i, LeastOrZero({j \in i..Len(s) : EmphasisMatch(s, j) # 0}))

\* PLACEHOLDER_RE = /\{[{]?[A-Za-z0-9_:-]+[}]?}/ tried at position i: the
\* last position of the match, or 0.
PlaceholderClose(s, p, q) ==
    IF q = p \/ At(s, q) # "}" THEN 0
    ELSE IF At(s, q + 1) = "}" THEN q + 1 ELSE q

PlaceholderBody(s, p) == PlaceholderClose(s, p, RunEnd(s, PlaceholderChar, p))

PlaceholderMatch(s, i) ==
    IF At(s, i) # "{" THEN 0
    ELSE PlaceholderBody(s, IF At(s, i + 1) = "{" THEN i + 2 ELSE i + 1)

VarMarker == <<"<", "V", "A", "R", ">">>

\* .replace(PLACEHOLDER_RE, '<VAR>')
RECURSIVE ReplacePlaceholders(_, _)
PlaceholderReplaced(s, i, j) ==
    IF j = 0 THEN SubSeq(s, i, Len(s))
    ELSE SubSeq(s, i, j - 1) \o VarMarker \o ReplacePlaceholders(s, PlaceholderMatch(s, j) + 1)

ReplacePlaceholders(s, i) == PlaceholderReplaced(s, i, LeastOrZero({j \in i..Len(s) : PlaceholderMatch(s, j) # 0}))

normalize(line) ==
    ReplacePlaceholders(RemoveEmphasis(ReplaceLinks(line, 1), 1), 1)

(***************************************************************************)
(* Metric extractors.                                                      *)
(***************************************************************************)
\* Math.log2(k) in millionths, k = 1..80 (lines of the model are shorter).
Log2Micro ==
    << 0, 1000000, 1584963, 2000000, 2321928, 2584963, 2807355, 3000000,
       3169925, 3321928, 3459432, 3584963, 3700440, 3807355, 3906891, 4000000,
       4087463, 4169925, 4247928, 4321928, 4392317, 4459432, 4523562, 4584963,
       4643856, 4700440, 4754888, 4807355, 4857981, 4906891, 4954196, 5000000,
       5044394, 5087463, 5129283, 5169925, 5209453, 5247928, 5285402, 5321928,
       5357552, 5392317, 5426265, 5459432, 5491853, 5523562, 5554589, 5584963,
       5614710, 5643856, 5672425, 5700440, 5727920, 5754888, 5781360, 5807355,
       5832890, 5857981, 5882643, 5906891, 5930737, 5954196, 5977280, 6000000,
       6022368, 6044394, 6066089, 6087463, 6108524, 6129283, 6149747, 6169925,
       6189825, 6209453, 6228819, 6247928, 6266787, 6285402, 6303781, 6321928 >>

\* The number of positions of s holding ch.
CountOf(s, ch) == Cardinality({i \in DOMAIN s : s[i] = ch})

\* The keys of counts: the distinct characters of s.
Chars(s) == {s[i] : i \in DOMAIN s}

\* -p * log2(p) times n for a character that occurs count times among n:
\* count * (log2(n) - log2(count)).
EntropyTerm(n, count) == count * (Log2Micro[n] - Log2Micro[count])

\* The loop of shannon over the keys of counts, the keys of equal count
\* taken together (ks holds the counts still to add); the division by n is
\* done once, by shannon.
RECURSIVE EntropySum(_, _, _)
EntropyOfCount(s, chars, ks, k) ==
    Cardinality({c \in chars : CountOf(s, c) = k}) * EntropyTerm(Len(s), k)
    + EntropySum(s, chars, ks \ {k})

EntropySum(s, chars, ks) ==
    IF ks = {} THEN 0 ELSE EntropyOfCount(s, chars, ks, CHOOSE k \in ks : TRUE)

ShannonOf(s, chars) == EntropySum(s, chars, {CountOf(s, c) : c \in chars}) \div Len(s)

shannon(s) == IF s = <<>> THEN 0 ELSE ShannonOf(s, Chars(s))

\* caseSwitchRate: the loop counts the alphabetic characters (alpha) and
\* those whose case differs from the alphabetic character before (switches).
CaseSwitches(letters) ==
    Cardinality({i \in 2..Len(letters) : (letters[i] \in Upper) # (letters[i - 1] \in Upper)})

\* alpha ? switches / alpha : 0, letters being the alphabetic characters
CaseSwitchQuotient(letters) ==
    IF Len(letters) # 0 THEN (CaseSwitches(letters) * Micro) \div Len(letters) ELSE 0

caseSwitchRate(line) == CaseSwitchQuotient(SelectSeq(line, LAMBDA ch : ch \in Alpha))

DigitChars == <<"0","1","2","3","4","5","6","7","8","9">>

\* The decimal digits of a positive integer (number-to-string concatenation).
RECURSIVE DecimalString(_)
DecimalString(n) ==
    IF n < 10 THEN <<DigitChars[n + 1]>>
    ELSE DecimalString(n \div 10) \o <<DigitChars[(n % 10) + 1]>>

\* Appends without the append that follows the loop.
AppendsInLoop(s) == {i \in 2..Len(s) : s[i] # s[i - 1]}

\* The loop of simpleCompressLen appends to out at each index i (1-based
\* here) with s[i] !== last, and once more after the loop (index Len(s) + 1):
\* each append writes the run that ends before its index.
Appends(s) == {i \in 2..Len(s) : s[i] # s[i - 1]} \cup {Len(s) + 1}

\* count at the append of index e: the run starts at the append before (at 1
\* if there is none).
CountAt(appends, e) ==
    e - (CHOOSE b \in {1} \cup appends : b < e /\ \A c \in {1} \cup appends : c < e => c <= b)

\* last + (count > 1 ? count : '')
Appended(last, count) == <<last>> \o (IF count > 1 THEN DecimalString(count) ELSE <<>>)

\* The characters of out: <<e, j>> is the j-th character of what the append
\* of index e writes (it writes no more than 1 + the digits of Len(s)).
OutChars(s, appends) ==
    {p \in appends \X (1..(1 + Len(DecimalString(Len(s))))) :
        p[2] <= Len(Appended(s[p[1] - 1], CountAt(appends, p[1])))}

\* out.length
simpleCompressLen(s) == IF s = <<>> THEN 0 ELSE Cardinality(OutChars(s, Appends(s)))

\* compressionRatio: compressedLen / norm.length, 0 for the empty line.
CompressionRatio(norm) ==
    IF Len(norm) # 0 THEN (simpleCompressLen(norm) * Micro) \div Len(norm) ELSE 0

\* The positions at which a match of /\w+/g starts.
TokenStarts(s) ==
    {j \in DOMAIN s : s[j] \in WordChar /\ (j = 1 \/ ~(At(s, j - 1) \in WordChar))}

\* The k-th match: from the k-th start to the end of its run.
TokenOf(s, j) == SubSeq(s, j, RunEnd(s, WordChar, j) - 1)

TokensFrom(s, starts) ==
    [k \in 1..Cardinality(starts) |->
        TokenOf(s, CHOOSE j \in starts : Cardinality({x \in starts : x < j}) = k - 1)]

\* norm.match(/\w+/g) || []: the maximal runs of word characters.
Tokens(s) == TokensFrom(s, TokenStarts(s)) \o <<>>

\* Whether word (lower case) stands in s at position i, case-insensitively.
HasWordAt(s, i, word) ==
    /\ i + Len(word) - 1 <= Len(s)
    /\ \A k \in DOMAIN word : ToLower(s[i + k - 1]) = word[k]

StepWords ==
    << <<"f","i","r","s","t">>, <<"s","e","c","o","n","d">>, <<"t","h","i","r","d">>,
       <<"f","o","u","r","t","h">>, <<"f","i","f","t","h">>, <<"s","i","x","t","h">>,
       <<"s","e","v","e","n","t","h">>, <<"e","i","g","h","t","h">>,
       <<"n","i","n","t","h">>, <<"t","e","n","t","h">>>>

\* The alternatives of stepRegex after the first, in order.
StepWordsFrom(words, hits, i) == IF hits = {} THEN 0 ELSE i + Len(words[Least(hits)])

StepWordMatch(s, i, words) ==
    StepWordsFrom(words, {w \in DOMAIN words : HasWordAt(s, i, words[w])}, i)

\* \d+ from position d: the position after the digits, or 0.
StepDigits(d, e) == IF e > d THEN e ELSE 0

\* step\s*\d+ tried at position i: the position after the match, or 0.
StepNumberMatch(s, i) ==
    IF i + 3 <= Len(s) /\ <<"s","t","e","p">> = [k \in 1..4 |-> ToLower(s[i + k - 1])]
    THEN StepDigits(RunEnd(s, SpaceChar, i + 4),
                    RunEnd(s, Digit, RunEnd(s, SpaceChar, i + 4)))
    ELSE 0

\* The first alternative's match if it has one, else the words'.
StepFirstOf(numbered, worded) == IF numbered # 0 THEN numbered ELSE worded

\* stepRegex tried at position i: the position after the match, or 0.
StepMatch(s, i) == StepFirstOf(StepNumberMatch(s, i), StepWordMatch(s, i, StepWords))

\* countSteps: the number of non-overlapping matches of stepRegex from i, the
\* leftmost being at j (0 if none).
RECURSIVE CountStepsFrom(_, _)
CountStepsAt(s, j) == IF j = 0 THEN 0 ELSE 1 + CountStepsFrom(s, StepMatch(s, j))

CountStepsFrom(s, i) == CountStepsAt(s, LeastOrZero({j \in i..Len(s) : StepMatch(s, j) # 0}))

countSteps(line) == CountStepsFrom(line, 1)

\* raw.trim(): the line without its leading and trailing white space.
Trim(s) ==
    LET keep == {j \in DOMAIN s : s[j] \notin SpaceChar}
    IN  IF keep = {} THEN <<>>
        ELSE SubSeq(s, Least(keep), CHOOSE m \in keep : \A k \in keep : k <= m)

(***************************************************************************)
(* The module-level RegExp objects.  Each carries a lastIndex; only a      *)
(* global or sticky expression reads or writes it.  String.replace with a  *)
(* global expression starts from 0 and leaves lastIndex 0.                 *)
(***************************************************************************)
RegExps == {"HEADING_RE", "PLACEHOLDER_RE", "EMPHASIS_RE", "LINK_RE"}

\* HEADING_RE = /^\s{0,3}#/ matched at index start (0-based): the index after
\* the match, or -1.  The anchor allows a match at index 0 only.
HeadingMatch(s, start) ==
    LET k == RunEnd(s, SpaceChar, 1) - 1
    IN  IF start = 0 /\ k <= 3 /\ At(s, k + 1) = "#" THEN k + 1 ELSE -1

\* HEADING_RE.test(raw) as if the expression carried the g flag: the search
\* starts at lastIndex, which a match advances and a failure resets.
HeadingTestGlobal(raw, li) ==
    LET e == IF li > Len(raw) THEN -1 ELSE HeadingMatch(raw, li)
    IN  [result |-> e # -1, lastIndex |-> IF e = -1 THEN 0 ELSE e]

\* HEADING_RE.test(raw): the expression has no g flag, so the search starts
\* at 0 and lastIndex (li) is neither read nor written.
HeadingTest(raw, li) ==
    [result |-> HeadingMatch(raw, 0) # -1, lastIndex |-> li]

(***************************************************************************)
(* The lines the documents of the model are made of.                       *)
(***************************************************************************)
\* an empty line
Blank == <<>>

\* white space only: not empty, blank after trim
Spaces == <<" "," ">>

\* one token, entropy 0
Twin == <<"a","a">>

\* a heading whose metrics pass three core thresholds
Heading ==
    <<" "," ","#"," ","T","h","e"," ","q","u","i","c",
      "k"," ","b","r","o","w","n"," ","f","o","x"," ",
      "j","u","m","p","s"," ","o","v","e","r"," ","1",
      "2","3","4","5","6","7","8","9","0","!","@">>

\* four spaces before the #: not a heading
Indented == <<" "," "," "," ","#"," ","a"," ","b"," ","c"," ","d">>

\* compress_high alone
Plain ==
    <<"t","h","e"," ","c","a","t"," ","s","a","t"," ",
      "o","n"," ","a"," ","m","a","t">>

\* long_tokens alone
LongTok ==
    <<"a","a","a","a","a","a","a","a","a","a","a","a",
      " ","b","b","b","b","b","b","b","b","b","b","b",
      "b"," ","c","c","c","c","c","c","c","c","c","c",
      "c","c"," ","d","d","d","d","d","d","d","d","d",
      "d","d","d">>

\* entropy_high, compress_high, mdl_high
Dense ==
    <<"T","h","e"," ","q","u","i","c","k"," ","b","r",
      "o","w","n"," ","f","o","x"," ","j","u","m","p",
      "s"," ","o","v","e","r"," ","1","2","3","4","5",
      "6","7","8","9","0","!","@">>

\* symbol_noise and compress_high
Noisy ==
    <<"a","!","!"," ","b","?","?"," ","c","#","#"," ",
      "d","$","$"," ","%","%">>

\* fifteen distinct tokens
Uniq ==
    <<"a"," ","b"," ","c"," ","d"," ","e"," ","f"," ",
      "g"," ","h"," ","i"," ","j"," ","k"," ","l"," ",
      "m"," ","n"," ","o">>

\* eight step markers in four tokens
Steps ==
    <<"f","i","r","s","t","f","i","r","s","t","f","i",
      "r","s","t","f","i","r","s","t","f","i","r","s",
      "t","f","i","r","s","t","f","i","r","s","t","f",
      "i","r","s","t"," ","a"," ","b"," ","c">>

\* a link: six raw tokens, two after normalize
Linked ==
    <<"[","a"," ","b","]","(","c"," ","d"," ","e"," ",
      "f"," ","g"," ","h",")">>

\* seven tokens of three tripled letters: entropy above 4.3, short encoding
Tripled ==
    <<"a","a","a","b","b","b","c","c","c"," ",
      "d","d","d","e","e","e","f","f","f"," ",
      "g","g","g","h","h","h","i","i","i"," ",
      "j","j","j","k","k","k","l","l","l"," ",
      "m","m","m","n","n","n","o","o","o"," ",
      "p","p","p","q","q","q","r","r","r"," ",
      "s","s","s","t","t","t","u","u","u">>

CorpusLines ==
    {Blank, Spaces, Twin, Heading, Indented, Plain, LongTok, Dense, Noisy, Uniq,
     Steps, Linked, Tripled}

(***************************************************************************)
(* computeMetrics, first pass: the callback of lines.map.                  *)
(***************************************************************************)
\* Periodicity/positional bias: every 64th line.
Period == 64

\* The record the map callback returns, from its locals; periodicityBias
\* is set by MapLine.
LineDataOf(raw, norm, tokens, entropy) ==
    [ raw |-> raw,
      norm |-> norm,
      entropy |-> entropy,
      avgTokenLen |-> IF Len(tokens) # 0
                      THEN (Len(SelectSeq(norm, LAMBDA ch : ch \in WordChar)) * Micro)
                           \div Len(tokens)
                      ELSE 0,
      uniqRatio |-> IF Len(tokens) # 0
                    THEN (Cardinality({tokens[t] : t \in DOMAIN tokens}) * Micro)
                         \div Len(tokens)
                    ELSE 0,
      symbolDensity |-> IF Len(norm) # 0
                        THEN (Len(SelectSeq(norm, LAMBDA ch : ch \notin {"_", " ", "\t"}
                                                               /\ ch \notin Alpha
                                                               /\ ch \notin Digit)) * Micro)
                             \div Len(norm)
                        ELSE 0,
      caseSwitch |-> caseSwitchRate(norm),
      compressionRatio |-> CompressionRatio(norm),
      mdlBitsPerChar |-> entropy,
      stepCount |-> countSteps(norm),
      periodicityBias |-> FALSE,
      issues |-> <<>>,
      severity |-> "NONE",
      score |-> 0 ]

\* The locals tokens and entropy of the map callback, from norm.
LineLocals(raw, norm) == LineDataOf(raw, norm, Tokens(norm), shannon(norm))

\* The fields of LineData that depend on the text alone.
LineMetrics(raw) == LineLocals(raw, normalize(raw))

\* PeriodicityBias taking the 0-based index for the position.
PeriodicityBiasOfIndex(idx) == idx % Period = 0

\* periodicityBias of the line at index idx (0-based).
PeriodicityBias(idx) == (idx + 1) % Period = 0

\* LineMetrics of each line of the corpus, computed once.
MetricsTable == [l \in CorpusLines |-> LineMetrics(l)] @@ <<>>

\* The LineData the map callback returns for the line raw at index idx.
MapLine(raw, idx) ==
    [MetricsTable[raw] EXCEPT !.periodicityBias = PeriodicityBias(idx)]

(***************************************************************************)
(* computeMetrics, second pass: the callback of data.forEach.              *)
(***************************************************************************)
entropyThresh == 4300000
avgTokenLenThresh == 11000000
symbolDensityThresh == 280000
compressThresh == 920000

\* mdlThresh set one bit per character above entropyThresh.
mdlThreshAboveEntropy == entropyThresh + Micro

mdlThresh == 4300000
entropyJumpDelta == 1500000
uniqMinTokens == 15
uniqRatioThresh == 980000
minTokens == 4

\* Math.ceil(Math.sqrt(tokenCount) * Math.log2(10)): the least k whose square
\* is at least tokenCount * log2(10)^2, log2(10)^2 being 11.0352...
StepLimit(tokenCount) ==
    Least({k \in 0..(4 * tokenCount) : k * k * 10000 >= tokenCount * 110352})

\* The names of the array that are not false (filter(Boolean)).
FilterFlags(pairs) ==
    LET kept == SelectSeq(pairs, LAMBDA p : p[1])
    IN  [k \in DOMAIN kept |-> kept[k][2]]

\* coreWeights with the key of mdl_high misspelt.
coreWeightsMisspelt ==
    [entropy_high |-> 10, long_tokens |-> 8, symbol_noise |-> 6,
     compress_high |-> 7, mld_high |-> 7]

\* The two weight tables of the score, in tenths.
coreWeights ==
    [entropy_high |-> 10, long_tokens |-> 8, symbol_noise |-> 6,
     compress_high |-> 7, mdl_high |-> 7]

auxWeights ==
    [uniq_high |-> 4, entropy_jump |-> 3, step_excess |-> 3, periodicity_bias |-> 2]

\* table[f] || 0
WeightOf(table, f) == IF f \in DOMAIN table THEN table[f] ELSE 0

\* flags.reduce((s, f) => s + (table[f] || 0), acc)
RECURSIVE Reduce(_, _, _)
Reduce(flags, table, acc) ==
    IF flags = <<>> THEN acc
    ELSE Reduce(Tail(flags), table, acc + WeightOf(table, Head(flags)))

\* d.score of a line with these core and auxiliary flags.
ScoreOf(coreFlags, auxFlags) ==
    Reduce(coreFlags, coreWeights, 0) + Reduce(auxFlags, auxWeights, 0)

\* The arrays coreFlags and auxFlags of a line on which the flags of the set
\* fires fire; a name neither table knows is put with the core flags.
CoreArrayOf(fires) ==
    FilterFlags(<< <<"entropy_high" \in fires, "entropy_high">>,
                   <<"long_tokens" \in fires, "long_tokens">>,
                   <<"symbol_noise" \in fires, "symbol_noise">>,
                   <<"compress_high" \in fires, "compress_high">>,
                   <<"mdl_high" \in fires, "mdl_high">>,
                   <<"forced_test_flag" \in fires, "forced_test_flag">> >>)

AuxArrayOf(fires) ==
    FilterFlags(<< <<"uniq_high" \in fires, "uniq_high">>,
                   <<"entropy_jump" \in fires, "entropy_jump">>,
                   <<"step_excess" \in fires, "step_excess">>,
                   <<"periodicity_bias" \in fires, "periodicity_bias">> >>)

\* severity from the number of core flags; "NONE" is undefined.
SeverityOf(numCore) ==
    IF numCore >= 1 THEN (IF numCore >= 3 THEN "HIGH" ELSE "WARN") ELSE "NONE"

\* TokenCount counting the tokens of the raw line instead of the normalized.
TokenCountOfRaw(d) == Len(Tokens(d.raw))

\* tokenCount of the forEach callback: (d.norm.match(/\w+/g) || []).length
TokenCount(d) == Len(Tokens(d.norm))

\* tokenCount of each callback of the forEach.
TokenCounts(data) == [i \in DOMAIN data |-> TokenCount(data[i])]

\* The indices (1-based) whose callback reaches HEADING_RE.test: the || of
\* the exemption check evaluates it only when tokenCount >= 4.
Tested(counts) == {j \in DOMAIN counts : counts[j] >= minTokens}

\* HEADING_RE.lastIndex when the callback of index i starts, li being its
\* value when forEach starts: what the last test before i left (tested is
\* Tested of the token counts).
RECURSIVE LastIndexBefore(_, _, _, _)
LastIndexBefore(data, tested, i, li) ==
    IF \A j \in tested : j >= i THEN li
    ELSE HeadingTest(data[CHOOSE m \in tested : m < i /\ \A k \in tested : k < i => k <= m].raw,
                     LastIndexBefore(data, tested,
                                     CHOOSE m \in tested : m < i /\ \A k \in tested : k < i => k <= m,
                                     li)).lastIndex

\* tokenCount < 4 || HEADING_RE.test(d.raw), lastIndex being li
Exempt(d, tokenCount, li) ==
    \/ tokenCount < minTokens
    \/ HeadingTest(d.raw, li).result

\* EntropyJump without the trim of the previous raw line.
EntropyJumpUntrimmed(data, i) ==
    /\ i > 1
    /\ data[i - 1].raw # <<>>
    /\ data[i].entropy - data[i - 1].entropy > entropyJumpDelta

\* prev && prev.raw.trim() !== '' && (d.entropy - prev.entropy) > 1.5
EntropyJump(data, i) ==
    /\ i > 1
    /\ Trim(data[i - 1].raw) # <<>>
    /\ data[i].entropy - data[i - 1].entropy > entropyJumpDelta

CoreFlags(d) ==
    FilterFlags(<< <<d.entropy >= entropyThresh, "entropy_high">>,
                   <<d.avgTokenLen >= avgTokenLenThresh, "long_tokens">>,
                   <<d.symbolDensity >= symbolDensityThresh, "symbol_noise">>,
                   <<d.compressionRatio >= compressThresh, "compress_high">>,
                   <<d.mdlBitsPerChar >= mdlThresh, "mdl_high">> >>)

AuxFlags(data, i, tokenCount) ==
    FilterFlags(<< <<tokenCount >= uniqMinTokens /\ data[i].uniqRatio > uniqRatioThresh,
                     "uniq_high">>,
                   <<EntropyJump(data, i), "entropy_jump">>,
                   <<data[i].stepCount > StepLimit(tokenCount), "step_excess">>,
                   <<data[i].periodicityBias, "periodicity_bias">> >>)

\* The assignments that end the forEach callback.
Flagged(d, coreFlags, auxFlags) ==
    [d EXCEPT !.issues = coreFlags \o auxFlags,
              !.score = ScoreOf(coreFlags, auxFlags),
              !.severity = SeverityOf(Len(coreFlags))]

\* The record of index i after its forEach callback, which starts with
\* HEADING_RE.lastIndex = li.
FlagLine(data, i, tokenCount, li) ==
    IF Exempt(data[i], tokenCount, li) THEN data[i]
    ELSE Flagged(data[i], CoreFlags(data[i]), AuxFlags(data, i, tokenCount))

\* data.forEach(...): the array it leaves and the lastIndex it leaves.
ForEachLine(data, counts, tested, li) ==
    [ data |-> [i \in DOMAIN data |->
                   FlagLine(data, i, counts[i], LastIndexBefore(data, tested, i, li))],
      lastIndex |-> LastIndexBefore(data, tested, Len(data) + 1, li) ]

\* The second pass over the array the first pass returns.
SecondPass(data, counts, li) == ForEachLine(data, counts, Tested(counts), li)

\* lines.map(...)
FirstPass(lines) == [i \in DOMAIN lines |-> MapLine(lines[i], i - 1)]

\* The two passes, the second over the array data of the first.
Passes(data, li) == SecondPass(data, TokenCounts(data) \o <<>>, li)

\* computeMetrics(lines) with HEADING_RE.lastIndex = li at the call: the
\* LineData array returned and the lastIndex left behind.
computeMetrics(lines, li) == Passes(FirstPass(lines) \o <<>>, li)

(***************************************************************************)
(* publishDiagnostics.                                                     *)
(***************************************************************************)
\* The keys of metricDetails.
metricDetails ==
    {"entropy_high", "long_tokens", "symbol_noise", "uniq_high", "entropy_jump",
     "compress_high", "mdl_high", "step_excess", "periodicity_bias", "forced_test_flag"}

\* score.toFixed(2) of a score in tenths: <<units, hundredths>>.
ToFixed2(score) == <<score \div 10, (score % 10) * 10>>

\* Emits with the score floor comparing by <= instead of <.
EmitsAboveFloor(d) ==
    /\ d.severity # "NONE"
    /\ d.severity # "INFO"
    /\ ~(d.score <= 10 /\ d.severity = "WARN")

\* Whether the forEach callback of publishDiagnostics pushes a diagnostic.
Emits(d) ==
    /\ d.severity # "NONE"
    /\ d.severity # "INFO"
    /\ ~(d.score < 10 /\ d.severity = "WARN")

\* The vscode.Diagnostic of line idx (0-based).
Diagnostic(d, idx) ==
    [ line |-> idx,
      startChar |-> 0,
      endChar |-> Len(d.raw),
      severity |-> IF d.severity = "HIGH" THEN "Error" ELSE "Warning",
      message |-> [ label |-> d.severity,
                    score |-> ToFixed2(d.score),
                    details |-> SelectSeq(d.issues, LAMBDA f : f \in metricDetails) ] ]

\* The k-th greatest element of a set of integers (unshift for push).
NthGreatest(set, k) == CHOOSE e \in set : Cardinality({y \in set : y > e}) = k - 1

\* The k-th least element of a set of integers.
NthLeast(set, k) == CHOOSE e \in set : Cardinality({y \in set : y < e}) = k - 1

\* diags after data.forEach: one push per emitting line, in index order.
DiagsOf(data) ==
    LET emitting == {i \in DOMAIN data : Emits(data[i])}
    IN  [k \in 1..Cardinality(emitting) |->
            Diagnostic(data[NthLeast(emitting, k)], NthLeast(emitting, k) - 1)]

(***************************************************************************)
(* The documents of the model.  A document is its array of lines           *)
(* (getText().split(/\r?\n/), which holds at least one line).              *)
(***************************************************************************)
\* The longest run of free lines at the end of a document.
MaxTail == 2

\* The number of analysis passes over one document.
MaxPasses == 2

\* A document starts with a run of equal short lines, which brings its
\* free lines to the positions around a multiple of Period: <<length, line>>.
Pads ==
    {<<0, Blank>>, <<Period - 1, Blank>>, <<Period - 1, Twin>>, <<2 * Period - 1, Twin>>}

\* The lines a document's free lines are drawn from.
TailLines == CorpusLines \ {Blank, Twin}

Tails == UNION {[1..n -> TailLines] : n \in 0..MaxTail}

Docs == {[i \in 1..p[1] |-> p[2]] \o t : p \in Pads, t \in Tails} \ {<<>>}

(***************************************************************************)
(* The state of the extension and of its host.                             *)
(***************************************************************************)
Uris == {"a.md", "b.txt", "c.ts"}

\* document.languageId
LanguageId(u) ==
    CASE u = "a.md" -> "markdown" [] u = "b.txt" -> "plaintext" [] OTHER -> "typescript"

Undefined == "undefined"

VARIABLES
    docText,         \* the lines of each open document
    activeEditor,    \* vscode.window.activeTextEditor: a uri or Undefined
    data,            \* per document, the LineData[] of its last computeMetrics
    diagCollection,  \* the DiagnosticCollection: uri -> Diagnostic[]
    lastIndex,       \* lastIndex of each module-level RegExp
    timers,          \* the Map timers: uri -> timeout handle, 0 when absent
    timeouts,        \* the host's armed timeouts: [id, uri, due]
    nextId,          \* the next timeout handle
    now,             \* the host's clock, in ms
    passes,          \* the analysis passes run so far (engine runs)
    lastChange,      \* per document, the time of its last change event, -1 if none
    runsSince,       \* per document, its debounced analyses since that event
    burst,           \* per document, the change events of its current burst
    flagSet,         \* the firing flags of the line being scored
    flagScore,       \* its score
    rleIn,           \* the argument of simpleCompressLen
    rleOut           \* compressedLen and compressionRatio of it, -1 before the call

engineVars == <<docText, activeEditor, data, diagCollection, lastIndex>>
hostVars == <<timers, timeouts, nextId, now, lastChange, runsSince, burst>>
pureVars == <<flagSet, flagScore, rleIn, rleOut>>
vars == <<engineVars, hostVars, passes, pureVars>>

HostInit ==
    /\ timers = [u \in Uris |-> 0]
    /\ timeouts = {}
    /\ nextId = 1
    /\ now = 0
    /\ lastChange = [u \in Uris |-> -1]
    /\ runsSince = [u \in Uris |-> 0]
    /\ burst = [u \in Uris |-> 0]

PureInit ==
    /\ flagSet = {}
    /\ flagScore = 0
    /\ rleIn = <<>>
    /\ rleOut = [compressedLen |-> -1, compressionRatio |-> -1]

\* publishDiagnostics(doc, data, collection), r being what computeMetrics
\* returned and left behind.
publishDiagnostics(u, r) ==
    /\ data' = [data EXCEPT ![u] = r.data]
    /\ diagCollection' = [diagCollection EXCEPT ![u] = DiagsOf(r.data)]
    /\ lastIndex' = [lastIndex EXCEPT !["HEADING_RE"] = r.lastIndex]

\* analyzeAndPublish(document)
analyzeAndPublish(u) ==
    IF LanguageId(u) \notin {"plaintext", "markdown", "text", "yaml"}
    THEN /\ diagCollection' = [v \in Uris |-> <<>>]
         /\ UNCHANGED <<data, lastIndex>>
    ELSE publishDiagnostics(u, computeMetrics(docText[u], lastIndex["HEADING_RE"]))

\* The command promptAnalyzer.analyzeCurrentFile.
AnalyzeCurrentFile ==
    /\ IF activeEditor # Undefined
       THEN analyzeAndPublish(activeEditor)
       ELSE UNCHANGED <<data, diagCollection, lastIndex>>
    /\ UNCHANGED <<docText, activeEditor, hostVars, pureVars>>

(***************************************************************************)
(* The engine: one document, analysed by the command up to MaxPasses       *)
(* times.                                                                  *)
(***************************************************************************)
MainUri == "a.md"

Init ==
    /\ \E d \in Docs : docText = [u \in Uris |-> IF u = MainUri THEN d ELSE <<Blank>>]
    /\ activeEditor = MainUri
    /\ data = [u \in Uris |-> <<>>]
    /\ diagCollection = [u \in Uris |-> <<>>]
    /\ lastIndex = [r \in RegExps |-> 0]
    /\ passes = 0
    /\ HostInit
    /\ PureInit

RunCommand ==
    /\ passes < MaxPasses
    /\ passes' = passes + 1
    /\ AnalyzeCurrentFile

Next == RunCommand

Spec == Init /\ [][Next]_vars

(***************************************************************************)
(* The score as a function of the firing flags: flags are added to a       *)
(* line's flag set, any number at a time, and the score is computed anew.  *)
(***************************************************************************)
FlagNames ==
    {"entropy_high", "long_tokens", "symbol_noise", "compress_high", "mdl_high",
     "uniq_high", "entropy_jump", "step_excess", "periodicity_bias",
     "forced_test_flag"}

ScoreInit ==
    /\ flagSet = {}
    /\ flagScore = ScoreOf(CoreArrayOf({}), AuxArrayOf({}))
    /\ rleIn = <<>>
    /\ rleOut = [compressedLen |-> -1, compressionRatio |-> -1]
    /\ docText = [u \in Uris |-> <<Blank>>]
    /\ activeEditor = Undefined
    /\ data = [u \in Uris |-> <<>>]
    /\ diagCollection = [u \in Uris |-> <<>>]
    /\ lastIndex = [r \in RegExps |-> 0]
    /\ passes = 0
    /\ HostInit

FlagsFire(more) ==
    /\ flagSet' = flagSet \cup more
    /\ flagScore' = ScoreOf(CoreArrayOf(flagSet'), AuxArrayOf(flagSet'))
    /\ UNCHANGED <<engineVars, hostVars, passes, rleIn, rleOut>>

ScoreNext == \E more \in (SUBSET (FlagNames \ flagSet)) \ {{}} : FlagsFire(more)

SpecScore == ScoreInit /\ [][ScoreNext]_vars

(***************************************************************************)
(* The run-length proxy as a function of its argument.                     *)
(***************************************************************************)
\* The longest argument over the two-letter alphabet.
MaxRleLen == 10

RepeatedTen == <<"a","a","a","a","a","a","a","a","a","a">>
DistinctTen == <<"a","b","c","d","e","f","g","h","i","j">>

RleInputs == (UNION {[1..n -> {"a", "b"}] : n \in 0..MaxRleLen}) \cup {DistinctTen}

RleInit ==
    /\ rleIn \in RleInputs
    /\ rleOut = [compressedLen |-> -1, compressionRatio |-> -1]
    /\ flagSet = {}
    /\ flagScore = 0
    /\ docText = [u \in Uris |-> <<Blank>>]
    /\ activeEditor = Undefined
    /\ data = [u \in Uris |-> <<>>]
    /\ diagCollection = [u \in Uris |-> <<>>]
    /\ lastIndex = [r \in RegExps |-> 0]
    /\ passes = 0
    /\ HostInit

Compress ==
    /\ rleOut.compressedLen = -1
    /\ rleOut' = [compressedLen |-> simpleCompressLen(rleIn),
                  compressionRatio |-> CompressionRatio(rleIn)]
    /\ UNCHANGED <<engineVars, hostVars, passes, flagSet, flagScore, rleIn>>

RleNext == Compress

SpecRLE == RleInit /\ [][RleNext]_vars

(***************************************************************************)
(* The host adapter: the handlers activate registers, the debounce and     *)
(* the host's clock and timeouts.                                          *)
(***************************************************************************)
\* The delay of the setTimeout of debouncedAnalyze, in ms.
DebounceMs == 600

\* The step of the host's clock, in ms: two steps to a debounce delay.
TickMs == DebounceMs \div 2

\* The clock runs to MaxTicks steps, and on while a timeout is armed.
MaxTicks == 1

\* The number of change events.
MaxChanges == 2

\* The texts a change event leaves a document with.
HostTexts == {<<Twin, Dense>>}

\* The documents that are opened, saved and shown in the editor.
Shown == {MainUri}

HostSpecInit ==
    /\ docText = [u \in Uris |-> <<Plain>>]
    /\ activeEditor = Undefined
    /\ data = [u \in Uris |-> <<>>]
    /\ diagCollection = [u \in Uris |-> <<>>]
    /\ lastIndex = [r \in RegExps |-> 0]
    /\ passes = 0
    /\ HostInit
    /\ PureInit

\* debouncedAnalyze without the clearTimeout.
DebouncedAnalyzeUncleared(u) ==
    /\ timeouts' = timeouts \cup {[id |-> nextId, uri |-> u, due |-> now + DebounceMs]}
    /\ timers' = [timers EXCEPT ![u] = nextId]
    /\ nextId' = nextId + 1

\* debouncedAnalyze(document): clearTimeout(timers.get(key)), then
\* timers.set(key, setTimeout(..., 600)).
debouncedAnalyze(u) ==
    /\ timeouts' = {t \in timeouts : t.id # timers[u]}
                   \cup {[id |-> nextId, uri |-> u, due |-> now + DebounceMs]}
    /\ timers' = [timers EXCEPT ![u] = nextId]
    /\ nextId' = nextId + 1

\* onDidOpenTextDocument(analyzeAndPublish)
OnDidOpenTextDocument(u) ==
    /\ analyzeAndPublish(u)
    /\ UNCHANGED <<docText, activeEditor, hostVars, passes, pureVars>>

\* onDidChangeTextDocument(e => debouncedAnalyze(e.document)), the document
\* now holding text.
OnDidChangeTextDocument(u, text) ==
    /\ nextId <= MaxChanges
    /\ docText' = [docText EXCEPT ![u] = text]
    /\ debouncedAnalyze(u)
    /\ lastChange' = [lastChange EXCEPT ![u] = now]
    /\ runsSince' = [runsSince EXCEPT ![u] = 0]
    /\ burst' = [burst EXCEPT ![u] =
                    IF lastChange[u] >= 0 /\ now - lastChange[u] < DebounceMs
                    THEN burst[u] + 1 ELSE 1]
    /\ UNCHANGED <<activeEditor, data, diagCollection, lastIndex, now, passes, pureVars>>

\* onDidSaveTextDocument(analyzeAndPublish)
OnDidSaveTextDocument(u) ==
    /\ analyzeAndPublish(u)
    /\ UNCHANGED <<docText, activeEditor, hostVars, passes, pureVars>>

\* onDidChangeActiveTextEditor(editor => { if (editor) ... })
OnDidChangeActiveTextEditor(editor) ==
    /\ activeEditor' = editor
    /\ IF editor # Undefined
       THEN analyzeAndPublish(editor)
       ELSE UNCHANGED <<data, diagCollection, lastIndex>>
    /\ UNCHANGED <<docText, hostVars, passes, pureVars>>

\* The callback of the setTimeout of debouncedAnalyze, run by the host no
\* earlier than its delay.
TimeoutFires(t) ==
    /\ now >= t.due
    /\ timeouts' = timeouts \ {t}
    /\ analyzeAndPublish(t.uri)
    /\ runsSince' = [runsSince EXCEPT ![t.uri] = runsSince[t.uri] + 1]
    /\ UNCHANGED <<docText, activeEditor, timers, nextId, now, lastChange, burst,
                   passes, pureVars>>

\* Time passes.
Tick ==
    /\ now < MaxTicks * TickMs \/ \E t \in timeouts : t.due > now
    /\ now' = now + TickMs
    /\ UNCHANGED <<engineVars, timers, timeouts, nextId, lastChange, runsSince, burst,
                   passes, pureVars>>

RunHostCommand == AnalyzeCurrentFile /\ UNCHANGED passes

HostNext ==
    \/ \E u \in Shown : OnDidOpenTextDocument(u)
    \/ \E u \in Uris, text \in HostTexts : OnDidChangeTextDocument(u, text)
    \/ \E u \in Shown : OnDidSaveTextDocument(u)
    \/ \E editor \in Shown \cup {Undefined} : OnDidChangeActiveTextEditor(editor)
    \/ RunHostCommand
    \/ \E t \in timeouts : TimeoutFires(t)
    \/ Tick

\* The host takes a due timeout off its list to run it (the step of
\* TimeoutFires, as the list shows it).
TimeoutRuns == \E t \in timeouts : now >= t.due /\ timeouts' = timeouts \ {t}

\* The host runs a due timeout, and its clock advances.
SpecHost ==
    /\ HostSpecInit
    /\ [][HostNext]_vars
    /\ WF_vars(Tick)
    /\ WF_timeouts(TimeoutRuns)

(***************************************************************************)
(* Properties of the engine, stated over the records and the diagnostics   *)
(* of the analysed document.  The notions the claims use are defined here  *)
(* from the claims' words, apart from the code's operators.                *)
(***************************************************************************)
Records == data[MainUri]
Findings == diagCollection[MainUri]

\* The number of word-tokens of s: the positions where a run of word
\* characters starts.
WordTokenCount(s) ==
    Cardinality({j \in DOMAIN s : s[j] \in WordChar /\ (j = 1 \/ s[j - 1] \notin WordChar)})

\* 0 to 3 leading white-space characters, then '#'.
IsHeadingLine(raw) ==
    \E k \in 0..3 : /\ k < Len(raw)
                    /\ raw[k + 1] = "#"
                    /\ \A j \in 1..k : raw[j] \in SpaceChar

IsExemptLine(d) == WordTokenCount(d.norm) < 4 \/ IsHeadingLine(d.raw)

\* The flags of a record, as a set, and those of each class.
FlagsOf(d) == {d.issues[k] : k \in DOMAIN d.issues}
CoreNames == {"entropy_high", "long_tokens", "symbol_noise", "compress_high", "mdl_high"}
AuxNames == {"uniq_high", "entropy_jump", "step_excess", "periodicity_bias"}

\* Whether a finding is published for the line at position i (1-based).
HasFinding(i) == \E k \in DOMAIN Findings : Findings[k].line = i - 1

\* C1: for every non-exempt line, twice the combined weight is
\* 2 * (core flags) + (auxiliary flags); combined weight 0 gives no severity,
\* below 3 gives warning, 3 or more gives high.
C1_SeverityFromCombinedWeight ==
    \A i \in DOMAIN Records :
        LET d == Records[i]
            twice == 2 * Cardinality(FlagsOf(d) \cap CoreNames)
                     + Cardinality(FlagsOf(d) \cap AuxNames)
        IN  ~IsExemptLine(d) =>
                d.severity = (IF twice = 0 THEN "NONE"
                              ELSE IF twice < 6 THEN "WARN" ELSE "HIGH")

\* C2: after computeMetrics, a line with fewer than 4 normalized word-tokens
\* or matching the heading pattern has no flags, score 0 and no severity,
\* whatever its metrics and its position, and no finding is emitted for it.
C2_ExemptLinesCarryNothing ==
    \A i \in DOMAIN Records :
        IsExemptLine(Records[i]) =>
            /\ Records[i].issues = <<>>
            /\ Records[i].score = 0
            /\ Records[i].severity = "NONE"
            /\ ~HasFinding(i)

\* C2 witness: an analysed heading at a position that is a multiple of 64
\* whose entropy passes the threshold, and which carries nothing.
C2_Witness ==
    \E i \in DOMAIN Records :
        /\ i % 64 = 0
        /\ IsHeadingLine(Records[i].raw)
        /\ WordTokenCount(Records[i].norm) >= 4
        /\ Records[i].entropy >= 4300000
        /\ Records[i].issues = <<>>

\* C3: a warning line produces a finding iff its score is at least 1.0, a
\* high line always does, a line with no severity never does.
C3_EmissionFilter ==
    \A i \in DOMAIN Records :
        LET d == Records[i]
        IN  /\ d.severity = "WARN" => (HasFinding(i) <=> d.score >= 10)
            /\ d.severity = "HIGH" => HasFinding(i)
            /\ d.severity = "NONE" => ~HasFinding(i)
            /\ d.severity \in {"WARN", "HIGH", "NONE"}

\* C3 witness: a warning line of score 0.8 without a finding beside a
\* warning line of score exactly 1.0 with one.
C3_Witness ==
    /\ \E i \in DOMAIN Records :
          Records[i].severity = "WARN" /\ Records[i].score = 8 /\ ~HasFinding(i)
    /\ \E i \in DOMAIN Records :
          Records[i].severity = "WARN" /\ Records[i].score = 10 /\ HasFinding(i)

\* C5 as claimed: periodicity_bias is among a line's flags exactly when its
\* 1-based position is a multiple of 64, whatever the line holds.
C5_FlagAtEveryMultiple ==
    \A i \in DOMAIN Records :
        ("periodicity_bias" \in FlagsOf(Records[i])) <=> (i % 64 = 0)

\* C5 amended: the positional-bias metric of every line is true exactly at
\* the multiples of 64, and periodicity_bias is among a line's flags exactly
\* when the position is a multiple of 64 and the line is not exempt.
C5_FlagAtNonExemptMultiples ==
    \A i \in DOMAIN Records :
        /\ Records[i].periodicityBias <=> (i % 64 = 0)
        /\ ("periodicity_bias" \in FlagsOf(Records[i]))
              <=> (i % 64 = 0 /\ ~IsExemptLine(Records[i]))

\* C5 witness: line 128 is evaluated and carries the flag while line 64 is
\* exempt and does not.
C5_Witness ==
    /\ Len(Records) >= 128
    /\ "periodicity_bias" \in FlagsOf(Records[128])
    /\ IsExemptLine(Records[64])
    /\ Records[64].periodicityBias
    /\ "periodicity_bias" \notin FlagsOf(Records[64])

\* C6: on a non-exempt line i, entropy_jump fires iff line i-1 exists, its
\* raw text holds a character that is not white space, and the entropy of
\* line i exceeds that of line i-1 by more than 1.5; never on the first line.
C6_EntropyJumpRule ==
    \A i \in DOMAIN Records :
        ~IsExemptLine(Records[i]) =>
            (("entropy_jump" \in FlagsOf(Records[i]))
                <=> /\ i > 1
                    /\ \E j \in DOMAIN Records[i - 1].raw :
                           Records[i - 1].raw[j] \notin SpaceChar
                    /\ Records[i].entropy - Records[i - 1].entropy > 1500000)

\* C6 witness: the flag on an evaluated line whose previous line is itself
\* exempt from flagging.
C6_Witness ==
    \E i \in DOMAIN Records :
        /\ i > 1
        /\ "entropy_jump" \in FlagsOf(Records[i])
        /\ IsExemptLine(Records[i - 1])
        /\ Records[i - 1].issues = <<>>

\* C7: a pass over a document analysed before leaves the findings as they
\* were, and no pass changes the lastIndex of a module-level RegExp.
C7_PassIsIdempotent ==
    [][ passes' = passes + 1 =>
          /\ lastIndex' = lastIndex
          /\ passes >= 1 => (diagCollection' = diagCollection /\ data' = data) ]_vars

\* C7 witness: a second pass over a document that holds an evaluated heading
\* test and has findings.
C7_Witness ==
    /\ passes = 2
    /\ Findings # <<>>
    /\ \E i \in DOMAIN Records :
          IsHeadingLine(Records[i].raw) /\ WordTokenCount(Records[i].norm) >= 4

\* C9: the findings are in strictly increasing line order (so at most one per
\* line), each line index is in 0..N-1, each span runs from 0 to the length
\* of that raw line, and each severity is warning or high.
C9_FindingsWellFormed ==
    /\ \A k \in DOMAIN Findings :
          /\ Findings[k].line \in 0..(Len(docText[MainUri]) - 1)
          /\ Findings[k].startChar = 0
          /\ Findings[k].endChar = Len(docText[MainUri][Findings[k].line + 1])
          /\ Findings[k].severity \in {"Warning", "Error"}
          /\ Findings[k].message.label \in {"WARN", "HIGH"}
    /\ \A k \in 1..(Len(Findings) - 1) : Findings[k].line < Findings[k + 1].line

\* C9 witness: two findings, of different severities and lengths.
C9_Witness ==
    /\ Len(Findings) = 2
    /\ Findings[1].severity # Findings[2].severity
    /\ Findings[1].endChar # Findings[2].endChar

(***************************************************************************)
(* Properties of the score and of the run-length proxy.                    *)
(***************************************************************************)
\* The weight the claim gives each flag, in tenths; other names weigh 0.
ClaimedWeight(f) ==
    CASE f = "entropy_high" -> 10 [] f = "long_tokens" -> 8 [] f = "symbol_noise" -> 6
      [] f = "compress_high" -> 7 [] f = "mdl_high" -> 7 [] f = "uniq_high" -> 4
      [] f = "entropy_jump" -> 3 [] f = "step_excess" -> 3
      [] f = "periodicity_bias" -> 2 [] OTHER -> 0

RECURSIVE ClaimedSum(_)
ClaimedSum(fires) ==
    IF fires = {} THEN 0
    ELSE LET f == CHOOSE g \in fires : TRUE
         IN  ClaimedWeight(f) + ClaimedSum(fires \ {f})

Recognized(fires) == fires \cap (CoreNames \cup AuxNames)

\* C4: the score is the sum of the per-flag weights of the firing flags (a
\* name without a weight adds 0), it is never negative, and a flag set that
\* grows never lowers the score and raises it when it gains a recognized flag.
C4_ScoreIsMonotoneWeightSum ==
    /\ [](flagScore = ClaimedSum(flagSet) /\ flagScore >= 0)
    /\ [][ /\ flagScore' >= flagScore
           /\ Recognized(flagSet') # Recognized(flagSet) => flagScore' > flagScore
           /\ Recognized(flagSet') = Recognized(flagSet) => flagScore' = flagScore ]_vars

\* C4 witness: all nine recognized flags and the unknown name fire.
C4_Witness == flagSet = FlagNames /\ flagScore = 50

\* The starts of the maximal runs of s, and the length of the run at i.
RunStarts(s) == {i \in DOMAIN s : i = 1 \/ s[i] # s[i - 1]}
RunLength(s, i) ==
    LET later == {j \in RunStarts(s) : j > i}
    IN  (IF later = {} THEN Len(s) + 1 ELSE Least(later)) - i

\* The length of the encoding the claim describes: per maximal run, the
\* character, then the decimal run length when it is greater than 1.
EncodedLength(s) ==
    Cardinality(RunStarts(s))
    + Cardinality({i \in RunStarts(s) : RunLength(s, i) > 1})
    + Cardinality({i \in RunStarts(s) : RunLength(s, i) >= 10})
    + Cardinality({i \in RunStarts(s) : RunLength(s, i) >= 100})

\* C8 as claimed: the encoding is as described, "aaaaaaaaaa" encodes to
\* length 2 and ratio 0.2, "abcdefghij" to length 10 and ratio 1.0.
C8_RepeatedTenEncodesToTwo ==
    rleOut.compressedLen # -1 =>
        /\ rleOut.compressedLen = EncodedLength(rleIn)
        /\ rleIn = RepeatedTen =>
              rleOut.compressedLen = 2 /\ rleOut.compressionRatio = 200000
        /\ rleIn = DistinctTen =>
              rleOut.compressedLen = 10 /\ rleOut.compressionRatio = 1000000

\* C8 amended: the encoding is as described; "aaaaaaaaaa" encodes to "a10",
\* length 3 and ratio 0.3, "abcdefghij" to length 10 and ratio 1.0, so the
\* former ratio is less than the latter.
C8_RepeatedTenEncodesToThree ==
    rleOut.compressedLen # -1 =>
        /\ rleOut.compressedLen = EncodedLength(rleIn)
        /\ rleIn = RepeatedTen =>
              rleOut.compressedLen = 3 /\ rleOut.compressionRatio = 300000
        /\ rleIn = DistinctTen =>
              rleOut.compressedLen = 10 /\ rleOut.compressionRatio = 1000000

\* C8 witness: the proxy has run on the ten-fold repeated character.
C8_Witness == rleIn = RepeatedTen /\ rleOut.compressedLen = 3

(***************************************************************************)
(* Properties of the debounce.                                             *)
(***************************************************************************)
Armed(u) == {t \in timeouts : t.uri = u}

\* C10: at most one timeout is armed per document, and it is the one the
\* map timers holds, due 600 ms after the document's last change event; a
\* change event cancels the document's armed timeout, arms a new one and
\* leaves the timeouts of other documents armed; no debounced analysis of a
\* document runs between two of its change events less than 600 ms apart nor
\* earlier than 600 ms after the last; and after the last change event of a
\* document exactly one debounced analysis of it runs.
C10_OneDebouncedAnalysisPerBurst ==
    /\ [](\A u \in Uris :
             /\ Cardinality(Armed(u)) <= 1
             /\ \A t \in Armed(u) : t.id = timers[u] /\ t.due = lastChange[u] + 600
             /\ runsSince[u] <= 1)
    /\ [][\A u \in Uris :
             /\ timers'[u] # timers[u] =>
                   /\ lastChange[u] >= 0 /\ now - lastChange[u] < 600 => runsSince[u] = 0
                   /\ \A v \in Uris \ {u} : Armed(v)' = Armed(v)
                   /\ Armed(u)' = {[id |-> timers'[u], uri |-> u, due |-> now + 600]}
             /\ runsSince'[u] = runsSince[u] + 1 => now >= lastChange[u] + 600]_vars
    /\ \A u \in Uris : <>[](lastChange[u] >= 0 => runsSince[u] = 1 /\ Armed(u) = {})

\* C10 witness: after a burst of two change events of a.md, less than 600 ms
\* apart, its one debounced analysis has run and no timeout of it is armed.
C10_Witness ==
    /\ burst["a.md"] >= 2
    /\ runsSince["a.md"] = 1
    /\ Armed("a.md") = {}
    /\ data["a.md"] # <<>>

(***************************************************************************)
(* The description-length proxy and the entropy.                           *)
(***************************************************************************)
CoreOf(d) == FlagsOf(d) \cap CoreNames

\* C11: on every line entropy_high is among the flags iff mdl_high is, and on
\* an evaluated line both are there iff the entropy is at least 4.3; so
\* entropy_high is never the only core flag, a line carrying entropy_high has
\* at least 2 core flags and a score of at least 1.7, and a line with exactly
\* one core flag and no auxiliary flag has a score below 1.0.
C11_EntropyHighIffMdlHigh ==
    \A i \in DOMAIN Records :
        LET d == Records[i]
        IN  /\ ("entropy_high" \in FlagsOf(d)) <=> ("mdl_high" \in FlagsOf(d))
            /\ ~IsExemptLine(d) =>
                   (("entropy_high" \in FlagsOf(d)) <=> d.entropy >= 4300000)
            /\ CoreOf(d) # {"entropy_high"}
            /\ "entropy_high" \in FlagsOf(d) =>
                   Cardinality(CoreOf(d)) >= 2 /\ d.score >= 17
            /\ (Cardinality(CoreOf(d)) = 1 /\ FlagsOf(d) \cap AuxNames = {}) =>
                   d.score < 10

\* C11 witness: an analysed document with a line whose core flags are
\* entropy_high and mdl_high alone, of score exactly 1.7, and a line with one
\* core flag and no auxiliary flag, of score below 1.0.
C11_Witness ==
    /\ \E i \in DOMAIN Records :
          /\ CoreOf(Records[i]) = {"entropy_high", "mdl_high"}
          /\ Records[i].score = 17
    /\ \E i \in DOMAIN Records :
          /\ Cardinality(CoreOf(Records[i])) = 1
          /\ FlagsOf(Records[i]) \cap AuxNames = {}
          /\ Records[i].score < 10
====
